---- MODULE Spec2Model ----
(***************************************************************************)
(* Model of scc/drivers/evdevdrv.py: the evdev gamepad driver.             *)
(*                                                                         *)
(* EvdevDriver (the process-wide singleton _evdevdrv) owns the device      *)
(* table, the queue of discovered devices, the lock, the scan thread       *)
(* handle, the set of used ids and the time of the next scan.              *)
(* EvdevController wraps one evdev device: it registers with the poller,   *)
(* grabs the device, generates its id, parses its config and folds the     *)
(* events it reads into an EvdevControllerInput snapshot.                  *)
(*                                                                         *)
(* Two threads of control are modelled: the daemon's main loop (start,     *)
(* mainloop, the poller's input callbacks, removal requests) and the scan  *)
(* threads started by scan().  Every step that takes the lock is a step of *)
(* its own, so that the unlocked reads and writes of the source interleave *)
(* with the critical sections as they can in the program.                  *)
(***************************************************************************)
EXTENDS Integers, Sequences, FiniteSets, TLC

(***************************************************************************)
(* Bounds of the model.                                                    *)
(***************************************************************************)
MaxWrappers == 2       \* EvdevController objects ever constructed
MaxThreads == 2        \* scan thread objects that can exist at once
MaxTime == 10          \* last value of the clock time.time() reads
MaxQueue == 2          \* entries the discovery queue holds at most
MaxAttached == 3       \* EvdevController objects constructed where the main
                       \* loop is followed alone

(***************************************************************************)
(* Program constants.                                                      *)
(***************************************************************************)
SCAN_INTERVAL == 5
STICK_PAD_MAX == 32767
TRIGGER_MAX == 255

\* The device nodes evdev.list_devices() returns, in its order.
Paths == {1, 2}
NumPaths == Cardinality(Paths)
Wrappers == 1..MaxAttached
Threads == 1..MaxThreads

\* Python's None for _next_scan and _scan_thread, and for a wrapper without
\* an _id attribute.
NoValue == 0 - 1

(***************************************************************************)
(* The environment: device nodes and config files.                         *)
(***************************************************************************)
NameA == "Gamepad B8440"
NameB == "Gamepad I5538"

\* dev.name of the devices: gamepads of two models, whose names give the
\* same id for different magic numbers.
Names == {NameA, NameB}

\* binascii.crc32("%s%s" % (name, magic_number)) as Python 2 returns it (a
\* signed 32 bit integer), tabulated for the two device names.
crc32(name, magic) ==
    IF name = NameA
    THEN CASE magic = 0 -> 0 - 504591402
           [] magic = 1 -> 0 - 1762936000
           [] magic = 2 -> 266529530
           [] magic = 3 -> 2028329580
           [] magic = 4 -> 0 - 427733041
           [] magic = 5 -> 0 - 1853456551
           [] OTHER     -> 143601379
    ELSE CASE magic = 0 -> 110183500
           [] magic = 1 -> 1905685722
           [] magic = 2 -> 0 - 392223392
           [] magic = 3 -> 0 - 1617422858
           [] magic = 4 -> 33325141
           [] magic = 5 -> 1996206275
           [] OTHER     -> 0 - 269295239

\* x.strip("0") on the right of a hexadecimal numeral: the trailing zero
\* digits go.
RECURSIVE StripZeros(_)
StripZeros(v) == IF v > 0 /\ v % 16 = 0 THEN StripZeros(v \div 16) ELSE v

\* "ev%s" % (hex(crc32).upper().strip("-0X"),): the sign and the 0X prefix
\* are stripped on the left, zero digits on the right.  The id is
\* represented by the number its remaining hexadecimal digits denote.
FormatId(crc) == StripZeros(IF crc < 0 THEN 0 - crc ELSE crc)

\* EvdevController._generate_id: probe magic_number = 0, 1, ... until the id
\* is not in _used_ids.
RECURSIVE GenerateIdFrom(_, _, _)
GenerateIdFrom(name, magic, used) ==
    LET id == FormatId(crc32(name, magic))
    IN  IF id \in used THEN GenerateIdFrom(name, magic + 1, used) ELSE id

\* _generate_id without the loop: the id of magic_number 0, used or not.
generate_id_unprobed(name, used) == FormatId(crc32(name, 0))

generate_id(name, used) == GenerateIdFrom(name, 0, used)

(***************************************************************************)
(* Logical buttons, snapshots and configs.                                 *)
(***************************************************************************)
\* scc.constants.SCButtons: each logical button is one bit of the mask.
SCButtons_A == 32768
SCButtons_B == 8192

\* getattr(SCButtons, value); NoValue stands for the AttributeError of an
\* unknown name.
SCButtons(name) ==
    CASE name = "A" -> SCButtons_A
      [] name = "B" -> SCButtons_B
      [] OTHER      -> NoValue

\* EvdevControllerInput._fields
Fields == {"buttons", "ltrig", "rtrig", "stick_x", "stick_y",
           "lpad_x", "lpad_y", "rpad_x", "rpad_y"}

\* EvdevControllerInput( *[0] * len(EvdevControllerInput._fields) )
ZeroState == [f \in Fields |-> 0]

\* evdev.ecodes.EV_KEY, EV_ABS and EV_SYN
EV_SYN == 0
EV_KEY == 1
EV_ABS == 3

\* x & y and x | y on Python's integers (two's complement of any width).
RECURSIVE BitAnd(_, _)
BitAnd(x, y) ==
    IF x = 0 \/ y = 0 THEN 0
    ELSE IF x = 0 - 1 THEN y
    ELSE IF y = 0 - 1 THEN x
    ELSE IF x % 256 = 0 \/ y % 256 = 0 THEN 256 * BitAnd(x \div 256, y \div 256)
    ELSE (x % 2) * (y % 2) + 2 * BitAnd(x \div 2, y \div 2)

BitOr(x, y) == x + y - BitAnd(x, y)

\* x & ~y
BitClear(x, y) == x - BitAnd(x, y)

\* A key of the JSON object as int(x) sees it: a code, or NoValue for a key
\* int() raises ValueError on.
Btn(key, name) == [key |-> key, name |-> name]
Axis(key, axis, min, max, center) ==
    [key |-> key, axis |-> axis, min |-> min, max |-> max, center |-> center]

\* The parsed config files of the model (what json.loads returns), the
\* "buttons" and "axes" objects in their iteration order.
\*  1: two raw codes on button A, one on B, an unknown logical name, a
\*     non-numeric key; a stick axis, a trigger axis, an unknown axis name.
\*  2: an axis entry named "buttons" (a member of _fields) and a stick.
\*  3: an axis entry with min = max after a valid one.
\*  4: no "buttons" and no "axes" section.
\*  5: a stick whose raw range is the default one, min -127 and max 128.
\*  6: an axis entry with a non-numeric key between a valid button entry and
\*     a valid axis entry.
ConfigTable == <<
    [buttons |-> << Btn(304, "A"), Btn(305, "B"), Btn(306, "A"),
                    Btn(307, "NOPE"), Btn(NoValue, "B") >>,
     axes    |-> << Axis(0, "stick_x", 0, 2, 0),
                    Axis(2, "ltrig", 0, 2, 0),
                    Axis(5, "wheel", 0, 2, 0) >>],
    [buttons |-> << Btn(304, "A") >>,
     axes    |-> << Axis(0, "buttons", 0, 2, 0),
                    Axis(1, "stick_y", 2, 0, 0) >>],
    [buttons |-> << Btn(304, "A") >>,
     axes    |-> << Axis(0, "stick_x", 0, 2, 0),
                    Axis(1, "stick_y", 1, 1, 0) >>],
    [buttons |-> << >>, axes |-> << >>],
    [buttons |-> << >>,
     axes    |-> << Axis(0, "stick_x", 0 - 127, 128, 0) >>],
    [buttons |-> << Btn(304, "A") >>,
     axes    |-> << Axis(NoValue, "stick_x", 0, 2, 0),
                    Axis(1, "stick_y", 0, 2, 0) >>] >>

Configs == 1..Len(ConfigTable)

(***************************************************************************)
(* EvdevController._parse_config                                           *)
(***************************************************************************)
EmptyMap == [k \in {} |-> 0]

\* The "buttons" loop: an entry whose key int() rejects or whose name
\* SCButtons does not have is passed over (the bare except).
RECURSIVE ParseButtons(_, _, _)
ParseButtons(entries, i, map) ==
    IF i > Len(entries) THEN map
    ELSE LET e == entries[i]
         IN  IF e.key # NoValue /\ SCButtons(e.name) # NoValue
             THEN ParseButtons(entries, i + 1, (e.key :> SCButtons(e.name)) @@ map)
             ELSE ParseButtons(entries, i + 1, map)

\* AxisCalibrationData(scale, offset, center) of one axis entry.  The scale
\* -2.0 / (min - max) is kept as the fraction num / den.
Calibration(e) ==
    IF e.axis \in {"ltrig", "rtrig"}
    THEN IF e.max > e.min
         THEN [num |-> 0 - 2, den |-> e.min - e.max, offset |-> 0 - 3, center |-> e.min]
         ELSE [num |-> 0 - 2, den |-> e.min - e.max, offset |-> 1, center |-> e.max]
    ELSE IF e.max > e.min
         THEN [num |-> 0 - 2, den |-> e.min - e.max, offset |-> 0 - 1, center |-> e.center]
         ELSE [num |-> 0 - 2, den |-> e.min - e.max, offset |-> 1, center |-> e.center]

\* The "axes" loop.  It has no try: int(x) on a non-numeric key and the
\* division by min - max = 0 raise out of _parse_config, leaving the maps as
\* the entries before have made them.
RECURSIVE ParseAxes(_, _, _)
ParseAxes(entries, i, acc) ==
    IF i > Len(entries) THEN acc
    ELSE LET e == entries[i]
         IN  IF e.key = NoValue THEN [acc EXCEPT !.raised = TRUE]
             ELSE IF e.axis \notin Fields THEN ParseAxes(entries, i + 1, acc)
             ELSE IF e.min = e.max THEN [acc EXCEPT !.raised = TRUE]
             ELSE ParseAxes(entries, i + 1,
                     [acc EXCEPT !.calibrations = (e.key :> Calibration(e)) @@ @,
                                 !.evdev_to_axis = (e.key :> e.axis) @@ @])

\* _parse_config(config): the three maps, and whether it raised.
parse_config(c) ==
    ParseAxes(ConfigTable[c].axes, 1,
        [raised |-> FALSE,
         evdev_to_button |-> ParseButtons(ConfigTable[c].buttons, 1, EmptyMap),
         evdev_to_axis |-> EmptyMap,
         calibrations |-> EmptyMap])

\* What _parse_config makes of each config of the model.
ConfigMaps == [c \in Configs |-> parse_config(c)]

\* The _evdev_to_button, _evdev_to_axis and _calibrations of a wrapper whose
\* _parse_config has run: they are set once, from its config.
Maps(c) == ConfigMaps[c.cfg]

(***************************************************************************)
(* EvdevController.input: folding a batch of events                        *)
(***************************************************************************)
Event(type, code, value) == [type |-> type, code |-> code, value |-> value]

\* int(x) of a quotient a / b: truncation toward zero.
TruncDiv(a, b) ==
    LET n == IF a < 0 THEN 0 - a ELSE a
        d == IF b < 0 THEN 0 - b ELSE b
        q == n \div d
    IN  IF (a < 0) = (b < 0) THEN q ELSE 0 - q

\* value = float(event.value) * cal.scale + cal.offset
\* value = int(value * STICK_PAD_MAX); inside [-center, center] it is 0.
Calibrate(cal, raw) ==
    LET value == TruncDiv((raw * cal.num + cal.offset * cal.den) * STICK_PAD_MAX, cal.den)
    IN  IF value >= 0 - cal.center /\ value <= cal.center THEN 0 ELSE value

\* The for loop's turn with a release that clears the whole mask instead of
\* the button's bit.
FoldEvent_release_all(maps, acc, event) ==
    IF event.type = EV_KEY /\ event.code \in DOMAIN maps.evdev_to_button
    THEN IF event.value # 0
         THEN [state |-> [acc.state EXCEPT !.buttons =
                             BitOr(@, maps.evdev_to_button[event.code])],
               fresh |-> TRUE]
         ELSE [state |-> [acc.state EXCEPT !.buttons = 0], fresh |-> TRUE]
    ELSE IF event.type = EV_ABS /\ event.code \in DOMAIN maps.evdev_to_axis
    THEN [state |-> [acc.state EXCEPT ![maps.evdev_to_axis[event.code]] =
                        Calibrate(maps.calibrations[event.code], event.value)],
          fresh |-> TRUE]
    ELSE acc

\* One turn of the for loop; maps has the wrapper's _evdev_to_button,
\* _evdev_to_axis and _calibrations.  acc.state is new_state, acc.fresh tells
\* whether new_state is another object than self._state (_replace always
\* builds a new tuple).
FoldEvent(maps, acc, event) ==
    IF event.type = EV_KEY /\ event.code \in DOMAIN maps.evdev_to_button
    THEN IF event.value # 0
         THEN [state |-> [acc.state EXCEPT !.buttons =
                             BitOr(@, maps.evdev_to_button[event.code])],
               fresh |-> TRUE]
         ELSE [state |-> [acc.state EXCEPT !.buttons =
                             BitClear(@, maps.evdev_to_button[event.code])],
               fresh |-> TRUE]
    ELSE IF event.type = EV_ABS /\ event.code \in DOMAIN maps.evdev_to_axis
    THEN [state |-> [acc.state EXCEPT ![maps.evdev_to_axis[event.code]] =
                        Calibrate(maps.calibrations[event.code], event.value)],
          fresh |-> TRUE]
    ELSE acc

RECURSIVE FoldFrom(_, _, _, _)
FoldFrom(maps, batch, i, acc) ==
    IF i > Len(batch) THEN acc
    ELSE FoldFrom(maps, batch, i + 1, FoldEvent(maps, acc, batch[i]))

\* The for loop of input() over the events device.read() yields.
Fold(maps, state, batch) == FoldFrom(maps, batch, 1, [state |-> state, fresh |-> FALSE])

\* The test of input() always passing.
StateChanged_always(old, acc) == TRUE

\* "if new_state is not self._state": the test that decides the notification.
StateChanged(old, acc) == acc.fresh

(***************************************************************************)
(* State                                                                   *)
(***************************************************************************)
VARIABLES
    devices,      \* EvdevDriver._devices: path -> wrapper, 0 for no entry
    new_devices,  \* EvdevDriver._new_devices: queue of (dev, config)
    lock,         \* EvdevDriver._lock: "free", or "main" / "scan", its holder
    scan_thread,  \* EvdevDriver._scan_thread: None or the thread
    used_ids,     \* EvdevDriver._used_ids
    next_scan,    \* EvdevDriver._next_scan: None or a time
    wr,           \* the EvdevController objects constructed so far
    nw,           \* how many have been constructed
    thr,          \* the scan threads: position and locals of each
    mpc,          \* position of the main thread
    mret,         \* where the main thread goes when scan() returns
    now,          \* time.time()
    dropped,      \* history: the last turn of mainloop()'s while loop has passed
                  \* over its entry, whose device was in _devices
    repeated,     \* history: since mainloop() ran last, device_removed() has
                  \* been called for a device whose wrapper it had removed before
    last_input,   \* history: the last call of input(): how many events it
                  \* read, the event if it was one, whether one had a mapped code,
                  \* self._state before, new_state, whether the mapper was called
    keys          \* history: the key events each wrapper has folded

vars == << devices, new_devices, lock, scan_thread, used_ids, next_scan, wr, nw,
           thr, mpc, mret, now, dropped, repeated, last_input, keys >>

driver == << devices, new_devices, lock, scan_thread, used_ids, next_scan >>

\* A wrapper that has not been constructed.
NoWrapper ==
    [stage |-> "none", fn |-> 0, name |-> "", cfg |-> 0, id |-> NoValue, state |-> ZeroState,
     registered |-> FALSE, grabbed |-> FALSE, open |-> FALSE, mapper |-> FALSE,
     log |-> << >>]

\* A scan thread that is not running.  Of a running one: its position, the
\* index i of the device node of this turn of the for loop, dev.name and
\* config once they are read, and bad: json.loads has raised in the turn the
\* thread has just finished.
IdleThread == [pc |-> "idle", i |-> 0, name |-> "", cfg |-> 0, bad |-> FALSE]

NoInput == [len |-> 0, single |-> [type |-> 0, code |-> 0, value |-> 0],
            mapped |-> FALSE, old |-> ZeroState, new |-> ZeroState,
            notified |-> FALSE]

\* History of a wrapper's key events: per logical button whether the last
\* event on a raw code mapped to it was a press, and whether input() has
\* folded key events only.
NoKeys == [pressed |-> [b \in {SCButtons_A, SCButtons_B} |-> FALSE], only_keys |-> TRUE]

\* EvdevDriver.__init__, and the module's "_evdevdrv = EvdevDriver()".
Init ==
    /\ devices = [p \in Paths |-> 0]
    /\ new_devices = << >>
    /\ lock = "free"
    /\ scan_thread = NoValue
    /\ used_ids = {}
    /\ next_scan = NoValue
    /\ wr = [w \in Wrappers |-> NoWrapper]
    /\ nw = 0
    /\ thr = [t \in Threads |-> IdleThread]
    /\ mpc = "new"
    /\ mret = "idle"
    /\ now = 0
    /\ dropped = FALSE
    /\ repeated = FALSE
    /\ last_input = NoInput
    /\ keys = [w \in Wrappers |-> NoKeys]

\* "time.time() > self._next_scan"; in Python 2 every number is greater than
\* None.
After(t, deadline) == deadline = NoValue \/ t > deadline

(***************************************************************************)
(* Constructing and closing a wrapper                                      *)
(***************************************************************************)
\* daemon.add_controller(controller): the daemon takes the controller and
\* gives it its mapper.
add_controller(c) ==
    [c EXCEPT !.mapper = TRUE, !.log = Append(@, "add_controller")]

\* daemon.remove_controller(controller)
remove_controller(c) ==
    [c EXCEPT !.log = Append(@, "remove_controller")]

\* EvdevController.__init__(daemon, device, config) for a device dev (its
\* path dev.fn and its name dev.name):
\* register with the poller, grab, generate the id, zero the state, parse
\* the config.  grab() raises when grabOk is false, _parse_config when the
\* config makes it; what was done before stays done.
EvdevController(dev, c, used, grabOk) ==
    LET c1 == [NoWrapper EXCEPT !.fn = dev.fn, !.name = dev.name, !.cfg = c,
                                !.open = TRUE,
                                !.registered = TRUE, !.log = << "register" >>]
        id == generate_id(dev.name, used)
        maps == ConfigMaps[c]
        c2 == [c1 EXCEPT !.grabbed = TRUE, !.id = id,
                         !.log = @ \o << "grab", "generate_id" >>]
    IN  IF ~grabOk
        THEN [ok |-> FALSE, used |-> used,
              c |-> [c1 EXCEPT !.stage = "grab_failed", !.log = Append(@, "grab_failed")]]
        ELSE IF maps.raised
        THEN [ok |-> FALSE, used |-> used \cup {id},
              c |-> [c2 EXCEPT !.stage = "parse_failed", !.log = Append(@, "parse_failed")]]
        ELSE [ok |-> TRUE, used |-> used \cup {id},
              c |-> [c2 EXCEPT !.stage = "constructed", !.log = Append(@, "parse_config")]]

\* close() without the try around ungrab(): its exception skips
\* device.close().
close_ungrab_raises(c, ungrabOk) ==
    IF ungrabOk
    THEN [c EXCEPT !.registered = FALSE, !.grabbed = FALSE, !.open = FALSE,
                   !.log = @ \o << "unregister", "ungrab", "close" >>]
    ELSE [c EXCEPT !.registered = FALSE,
                   !.log = @ \o << "unregister", "ungrab_failed" >>]

\* EvdevController.close(): unregister from the poller, try to ungrab, close
\* the device.
close(c, ungrabOk) ==
    [c EXCEPT !.registered = FALSE, !.grabbed = FALSE, !.open = FALSE,
              !.log = @ \o << "unregister",
                              IF ungrabOk THEN "ungrab" ELSE "ungrab_failed",
                              "close" >>]

\* The three fields of the driver that attach and removal change.
Tables == [devices |-> devices, used_ids |-> used_ids, wr |-> wr]

\* EvdevDriver.handle_new_device(dev, config), constructing wrapper w.
handle_new_device(T, dev, c, w, grabOk) ==
    LET made == EvdevController(dev, c, T.used_ids, grabOk)
    IN  IF made.ok
        THEN [devices |-> [T.devices EXCEPT ![dev.fn] = w],
              used_ids |-> made.used,
              wr |-> [T.wr EXCEPT ![w] =
                        [add_controller([made.c EXCEPT !.log = Append(@, "put_entry")])
                         EXCEPT !.stage = "attached"]]]
        ELSE [devices |-> T.devices,
              used_ids |-> made.used,
              wr |-> [T.wr EXCEPT ![w] = made.c]]

\* device_removed without "self._used_ids.remove(controller.get_id())".
device_removed_keeps_id(T, p, ungrabOk) ==
    IF T.devices[p] # 0
    THEN LET w == T.devices[p]
             c1 == remove_controller([T.wr[w] EXCEPT !.log = Append(@, "del_entry")])
             c2 == [c1 EXCEPT !.stage = "removed"]
         IN  [devices |-> [T.devices EXCEPT ![p] = 0],
              used_ids |-> T.used_ids,
              wr |-> [T.wr EXCEPT ![w] = close(c2, ungrabOk)]]
    ELSE T

\* device_removed without "del self._devices[dev.fn]".
device_removed_keeps_entry(T, p, ungrabOk) ==
    IF T.devices[p] # 0
    THEN LET w == T.devices[p]
             c1 == remove_controller(T.wr[w])
             c2 == [c1 EXCEPT !.stage = "removed"]
         IN  [devices |-> T.devices,
              used_ids |-> T.used_ids \ {c2.id},
              wr |-> [T.wr EXCEPT ![w] =
                        IF c2.id \in T.used_ids
                        THEN close([c2 EXCEPT !.log = Append(@, "release_id")], ungrabOk)
                        ELSE c2]]
    ELSE T

\* EvdevDriver.device_removed(dev) for a device whose dev.fn is p.  The
\* set's remove() raises KeyError for an id that is not in it, and then
\* close() is not reached.
device_removed(T, p, ungrabOk) ==
    IF T.devices[p] # 0
    THEN LET w == T.devices[p]
             c1 == remove_controller([T.wr[w] EXCEPT !.log = Append(@, "del_entry")])
             c2 == [c1 EXCEPT !.stage = "removed"]
         IN  [devices |-> [T.devices EXCEPT ![p] = 0],
              used_ids |-> T.used_ids \ {c2.id},
              wr |-> [T.wr EXCEPT ![w] =
                        IF c2.id \in T.used_ids
                        THEN close([c2 EXCEPT !.log = Append(@, "release_id")], ungrabOk)
                        ELSE c2]]
    ELSE T

(***************************************************************************)
(* The main thread                                                         *)
(***************************************************************************)
\* start(): the daemon calls it once, before its main loop runs.
Start ==
    /\ mpc = "new"
    /\ mpc' = "scan_wait"
    /\ mret' = "idle"
    /\ UNCHANGED << driver, wr, nw, thr, now, dropped, repeated, last_input, keys >>

\* scan(): "with self._lock:" is entered.
ScanLock ==
    /\ mpc = "scan_wait"
    /\ lock = "free"
    /\ lock' = "main"
    /\ mpc' = "scan_locked"
    /\ UNCHANGED << devices, new_devices, scan_thread, used_ids, next_scan, wr, nw,
                    thr, mret, now, dropped, repeated, last_input, keys >>

\* The scan thread scan() starts, if it starts one: the lowest free slot.
NewThread == CHOOSE t \in Threads : thr[t].pc = "idle" /\ \A u \in 1..(t - 1) : thr[u].pc # "idle"

\* scan() without its test of _scan_thread.
MayStartScan_always == TRUE

\* "if self._scan_thread is None"
MayStartScan == scan_thread = NoValue

\* scan(): the body of the with block and its exit.
ScanStart ==
    /\ mpc = "scan_locked"
    /\ IF MayStartScan
       THEN /\ \E t \in Threads : thr[t].pc = "idle"
            /\ scan_thread' = NewThread
            /\ thr' = [thr EXCEPT ![NewThread] = [IdleThread EXCEPT !.pc = "check", !.i = 1]]
       ELSE UNCHANGED << scan_thread, thr >>
    /\ lock' = "free"
    /\ mpc' = mret
    /\ UNCHANGED << devices, new_devices, used_ids, next_scan, wr, nw, mret, now,
                    dropped, repeated, last_input, keys >>

\* mainloop(): "if time.time() > self._next_scan: self.scan()"
MainloopBegin ==
    /\ mpc = "idle"
    /\ IF After(now, next_scan)
       THEN mpc' = "scan_wait" /\ mret' = "drain_wait"
       ELSE mpc' = "drain_wait" /\ UNCHANGED mret
    /\ repeated' = FALSE
    /\ UNCHANGED << driver, wr, nw, thr, now, dropped, last_input, keys >>

\* mainloop(): "with self._lock:" is entered.
DrainLock ==
    /\ mpc = "drain_wait"
    /\ lock = "free"
    /\ lock' = "main"
    /\ mpc' = "draining"
    /\ UNCHANGED << devices, new_devices, scan_thread, used_ids, next_scan, wr, nw,
                    thr, mret, now, dropped, repeated, last_input, keys >>

\* mainloop() without its test of _devices.
MayAttach_always(p) == TRUE

\* "if dev.fn not in self._devices" of mainloop()
MayAttach(p) == devices[p] = 0

\* A queue whose get() returns the entry put last.
get_newest(q) == [item |-> q[Len(q)], rest |-> SubSeq(q, 1, Len(q) - 1)]

\* "self._new_devices.get()": the entry put first, and the queue without it.
get(q) == [item |-> Head(q), rest |-> Tail(q)]

\* mainloop(): one turn of "while not self._new_devices.empty()".  An
\* exception of handle_new_device leaves the loop, the with block and
\* mainloop(); the entries behind stay queued.  limit bounds the wrappers
\* constructed.
DrainStep(limit, grabOk) ==
    /\ mpc = "draining"
    /\ new_devices # << >>
    /\ LET e == get(new_devices).item
           T == handle_new_device(Tables, e.dev, e.cfg, nw + 1, grabOk)
           attached == T.wr[nw + 1].stage = "attached"
       IN  /\ new_devices' = get(new_devices).rest
           /\ IF MayAttach(e.dev.fn)
              THEN /\ nw < limit
                   /\ devices' = T.devices
                   /\ used_ids' = T.used_ids
                   /\ wr' = T.wr
                   /\ nw' = nw + 1
                   /\ IF attached
                      THEN UNCHANGED << lock, mpc >>
                      ELSE lock' = "free" /\ mpc' = "idle"
                   /\ dropped' = FALSE
              ELSE /\ grabOk
                   /\ dropped' = TRUE
                   /\ UNCHANGED << devices, used_ids, wr, nw, lock, mpc >>
    /\ UNCHANGED << scan_thread, next_scan, thr, mret, now, repeated,
                    last_input, keys >>

\* mainloop(): the queue is empty, the with block is left.
DrainEnd ==
    /\ mpc = "draining"
    /\ new_devices = << >>
    /\ lock' = "free"
    /\ mpc' = "idle"
    /\ dropped' = FALSE
    /\ UNCHANGED << devices, new_devices, scan_thread, used_ids, next_scan, wr, nw,
                    thr, mret, now, repeated, last_input, keys >>

(***************************************************************************)
(* The scan thread: EvdevDriver._scan_thread_target                        *)
(***************************************************************************)
\* What the scan thread finds for a device name under get_config_path():
\* no config file, a file json.loads raises on, or a file it parses.
NoFile == 0
BadJson == NoValue
Parsed == 1

\* The config file "<dev.name>.json" of each device name: the first model
\* has a usable config, the config of the second has an axis with min = max.
ConfigFile(name) == IF name = NameA THEN 1 ELSE 3

\* The for loop goes on to the next device node, or the loop is over.
NextDevice(l) ==
    IF l.i < NumPaths THEN [IdleThread EXCEPT !.pc = "check", !.i = l.i + 1]
    ELSE [IdleThread EXCEPT !.pc = "end_wait"]

\* "if dev.fn not in self._devices" of the scan thread
NotAttached(p) == devices[p] = 0

\* The turn of the for loop without the try around json.loads: its
\* exception ends the thread.
ScanCheck_json_raises(t, name, found) ==
    /\ thr[t].pc = "check"
    /\ IF NotAttached(thr[t].i) /\ found = Parsed
       THEN thr' = [thr EXCEPT ![t] =
                      [@ EXCEPT !.pc = "put_wait", !.name = name,
                                !.cfg = ConfigFile(name), !.bad = FALSE]]
       ELSE IF NotAttached(thr[t].i) /\ found = BadJson
       THEN thr' = [thr EXCEPT ![t] = [IdleThread EXCEPT !.bad = TRUE]]
       ELSE thr' = [thr EXCEPT ![t] = NextDevice(@)]
    /\ UNCHANGED << driver, wr, nw, mpc, mret, now, dropped, repeated, last_input, keys >>

\* One turn of the for loop up to the with statement: open the device (its
\* name is name), look it up in _devices, look for its config file and parse
\* it.  An exception of json.loads is logged and the loop goes on.
ScanCheck(t, name, found) ==
    /\ thr[t].pc = "check"
    /\ IF NotAttached(thr[t].i) /\ found = Parsed
       THEN thr' = [thr EXCEPT ![t] =
                      [@ EXCEPT !.pc = "put_wait", !.name = name,
                                !.cfg = ConfigFile(name), !.bad = FALSE]]
       ELSE thr' = [thr EXCEPT ![t] =
                      [NextDevice(@) EXCEPT !.bad = NotAttached(thr[t].i) /\ found = BadJson]]
    /\ UNCHANGED << driver, wr, nw, mpc, mret, now, dropped, repeated, last_input, keys >>

\* "with self._lock:" around the put is entered.
ScanPutLock(t) ==
    /\ thr[t].pc = "put_wait"
    /\ lock = "free"
    /\ lock' = "scan"
    /\ thr' = [thr EXCEPT ![t] = [@ EXCEPT !.pc = "put"]]
    /\ UNCHANGED << devices, new_devices, scan_thread, used_ids, next_scan, wr, nw,
                    mpc, mret, now, dropped, repeated, last_input, keys >>

\* "self._new_devices.put(( dev, config ))", and the with block is left.
ScanPut(t) ==
    /\ thr[t].pc = "put"
    /\ Len(new_devices) < MaxQueue
    /\ new_devices' = Append(new_devices,
                          [dev |-> [fn |-> thr[t].i, name |-> thr[t].name],
                           cfg |-> thr[t].cfg])
    /\ lock' = "free"
    /\ thr' = [thr EXCEPT ![t] = NextDevice(@)]
    /\ UNCHANGED << devices, scan_thread, used_ids, next_scan, wr, nw, mpc, mret,
                    now, dropped, repeated, last_input, keys >>

\* The last "with self._lock:" is entered.
ScanEndLock(t) ==
    /\ thr[t].pc = "end_wait"
    /\ lock = "free"
    /\ lock' = "scan"
    /\ thr' = [thr EXCEPT ![t] = [@ EXCEPT !.pc = "end", !.bad = FALSE]]
    /\ UNCHANGED << devices, new_devices, scan_thread, used_ids, next_scan, wr, nw,
                    mpc, mret, now, dropped, repeated, last_input, keys >>

\* "self._scan_thread = None", the next scan is scheduled, the thread ends.
ScanEnd(t) ==
    /\ thr[t].pc = "end"
    /\ scan_thread' = NoValue
    /\ next_scan' = now + SCAN_INTERVAL
    /\ lock' = "free"
    /\ thr' = [thr EXCEPT ![t] = IdleThread]
    /\ UNCHANGED << devices, new_devices, used_ids, wr, nw, mpc, mret, now,
                    dropped, repeated, last_input, keys >>

(***************************************************************************)
(* The poller's callback and removal                                       *)
(***************************************************************************)
\* Whether an event of the batch has a code the maps know for its type.
Mapped(maps, batch) ==
    \E i \in 1..Len(batch) :
        \/ batch[i].type = EV_KEY /\ batch[i].code \in DOMAIN maps.evdev_to_button
        \/ batch[i].type = EV_ABS /\ batch[i].code \in DOMAIN maps.evdev_to_axis

\* The history of key events after the events of a batch from the i-th on.
RECURSIVE KeysAfter(_, _, _, _)
KeysAfter(maps, batch, i, k) ==
    IF i > Len(batch) THEN k
    ELSE LET e == batch[i]
         IN  IF e.type = EV_KEY /\ e.code \in DOMAIN maps.evdev_to_button
             THEN KeysAfter(maps, batch, i + 1,
                     [k EXCEPT !.pressed[maps.evdev_to_button[e.code]] = (e.value # 0)])
             ELSE IF e.type = EV_KEY
             THEN KeysAfter(maps, batch, i + 1, k)
             ELSE KeysAfter(maps, batch, i + 1, [k EXCEPT !.only_keys = FALSE])

\* device_removed(dev) finds no entry for dev.fn, and a wrapper of that
\* device has been removed before.
RemovedBefore(p) ==
    /\ devices[p] = 0
    /\ \E w \in Wrappers : wr[w].fn = p /\ wr[w].stage = "removed"

\* EvdevController.input of wrapper w, called by the poller between two
\* callbacks of the main loop.  batch are the events device.read() yields;
\* with failed, it then raises IOError.  A wrapper whose grab() raised has
\* no _state and its input() raises at once.
Input(w, batch, failed, ungrabOk) ==
    /\ mpc = "idle"
    /\ wr[w].registered
    /\ wr[w].stage # "grab_failed"
    /\ failed \/ ungrabOk
    /\ LET maps == Maps(wr[w])
           acc == Fold(maps, wr[w].state, batch)
           T == IF failed THEN device_removed(Tables, wr[w].fn, ungrabOk) ELSE Tables
           notify == StateChanged(wr[w].state, acc) /\ T.wr[w].mapper
       IN  /\ devices' = T.devices
           /\ used_ids' = T.used_ids
           /\ wr' = IF StateChanged(wr[w].state, acc)
                    THEN [T.wr EXCEPT ![w] = [@ EXCEPT !.state = acc.state]]
                    ELSE T.wr
           /\ last_input' = [len |-> Len(batch),
                             single |-> IF Len(batch) = 1 THEN batch[1] ELSE NoInput.single,
                             mapped |-> Mapped(maps, batch),
                             old |-> wr[w].state, new |-> acc.state,
                             notified |-> notify]
           /\ keys' = [keys EXCEPT ![w] = KeysAfter(maps, batch, 1, @)]
    /\ repeated' = (repeated \/ (failed /\ RemovedBefore(wr[w].fn)))
    /\ UNCHANGED << new_devices, lock, scan_thread, next_scan, nw, thr, mpc, mret,
                    now, dropped >>

\* device_removed(dev) called from outside the driver, between two callbacks
\* of the main loop, for a device whose dev.fn is p.
RemovalRequest(p, ungrabOk) ==
    /\ mpc = "idle"
    /\ LET T == device_removed(Tables, p, ungrabOk)
       IN  /\ devices' = T.devices
           /\ used_ids' = T.used_ids
           /\ wr' = T.wr
    /\ devices[p] # 0 \/ ungrabOk
    /\ repeated' = (repeated \/ RemovedBefore(p))
    /\ UNCHANGED << new_devices, lock, scan_thread, next_scan, nw, thr, mpc, mret,
                    now, dropped, last_input, keys >>

\* Time passes; the clock is read at steps of SCAN_INTERVAL.
Tick ==
    /\ now + SCAN_INTERVAL <= MaxTime
    /\ now' = now + SCAN_INTERVAL
    /\ UNCHANGED << driver, wr, nw, thr, mpc, mret, dropped, repeated, last_input, keys >>

(***************************************************************************)
(* Specifications                                                          *)
(***************************************************************************)
\* The batches input() folds in the driver's specification.
DriverBatches == { << >> }

Next ==
    \/ Start
    \/ ScanLock
    \/ ScanStart
    \/ MainloopBegin
    \/ DrainLock
    \/ \E grabOk \in BOOLEAN : DrainStep(MaxWrappers, grabOk)
    \/ DrainEnd
    \/ \E t \in Threads, name \in Names, found \in {NoFile, BadJson, Parsed} :
          ScanCheck(t, name, found)
    \/ \E t \in Threads : ScanPutLock(t)
    \/ \E t \in Threads : ScanPut(t)
    \/ \E t \in Threads : ScanEndLock(t)
    \/ \E t \in Threads : ScanEnd(t)
    \/ \E w \in Wrappers, batch \in DriverBatches, failed, ungrabOk \in BOOLEAN :
          Input(w, batch, failed, ungrabOk)
    \/ \E p \in Paths, ungrabOk \in BOOLEAN : RemovalRequest(p, ungrabOk)
    \/ Tick

Spec == Init /\ [][Next]_vars

(***************************************************************************)
(* The callback of one attached wrapper                                    *)
(***************************************************************************)
MaxBatch == 1          \* events device.read() yields at most in one call

\* The events of the model: key and axis events on the codes the configs
\* map and on codes they do not map, and a synchronisation event.
InputEvents ==
    { Event(EV_KEY, c, v) : c \in {304, 305, 306}, v \in {0, 1} }
    \cup { Event(EV_ABS, 0, v) : v \in {0, 2} }
    \cup { Event(EV_KEY, 307, 1), Event(EV_ABS, 2, 2), Event(EV_ABS, 5, 1),
           Event(EV_SYN, 0, 0) }

InputBatches ==
    UNION { [1..n -> InputEvents] : n \in 0..MaxBatch }

\* The configs whose _parse_config returns.
InputConfigs == { c \in Configs : ~ConfigMaps[c].raised }

\* The driver after its first scan has found the device at path 1 with a
\* config file and the main loop has attached it.
InitInput ==
    \E c \in InputConfigs :
        LET T == handle_new_device(
                    [devices |-> [p \in Paths |-> 0], used_ids |-> {},
                     wr |-> [w \in Wrappers |-> NoWrapper]],
                    [fn |-> 1, name |-> NameA], c, 1, TRUE)
        IN  /\ devices = T.devices
            /\ used_ids = T.used_ids
            /\ wr = T.wr
            /\ nw = 1
            /\ new_devices = << >>
            /\ lock = "free"
            /\ scan_thread = NoValue
            /\ next_scan = SCAN_INTERVAL
            /\ thr = [t \in Threads |-> IdleThread]
            /\ mpc = "idle"
            /\ mret = "idle"
            /\ now = 0
            /\ dropped = FALSE
            /\ repeated = FALSE
            /\ last_input = NoInput
            /\ keys = [w \in Wrappers |-> NoKeys]

NextInput ==
    \E batch \in InputBatches, failed, ungrabOk \in BOOLEAN :
        Input(1, batch, failed, ungrabOk)

SpecInput == InitInput /\ [][NextInput]_vars

(***************************************************************************)
(* The calibration of axis samples                                         *)
(***************************************************************************)
MaxSamples == 1        \* axis events device.read() yields at most in one call

\* The raw samples of the model: the ends of the raw ranges of the configs,
\* samples between them and a sample past the end; on the codes of the two
\* sticks and of the trigger.
AxisEvents ==
    { Event(EV_ABS, 0, v) : v \in {0 - 127, 0, 1, 2, 3, 128} }
    \cup { Event(EV_ABS, c, v) : c \in {1, 2}, v \in {0, 1, 2} }

AxisBatches ==
    UNION { [1..n -> AxisEvents] : n \in 0..MaxSamples }

\* The configs that calibrate an axis.
AxisConfigs == { c \in InputConfigs : DOMAIN ConfigMaps[c].calibrations # {} }

\* The driver after its first scan has found the device at path 1 with a
\* config file that has axes and the main loop has attached it.
InitCal ==
    \E c \in AxisConfigs :
        LET T == handle_new_device(
                    [devices |-> [p \in Paths |-> 0], used_ids |-> {},
                     wr |-> [w \in Wrappers |-> NoWrapper]],
                    [fn |-> 1, name |-> NameA], c, 1, TRUE)
        IN  /\ devices = T.devices
            /\ used_ids = T.used_ids
            /\ wr = T.wr
            /\ nw = 1
            /\ new_devices = << >>
            /\ lock = "free"
            /\ scan_thread = NoValue
            /\ next_scan = SCAN_INTERVAL
            /\ thr = [t \in Threads |-> IdleThread]
            /\ mpc = "idle"
            /\ mret = "idle"
            /\ now = 0
            /\ dropped = FALSE
            /\ repeated = FALSE
            /\ last_input = NoInput
            /\ keys = [w \in Wrappers |-> NoKeys]

NextCal ==
    \E batch \in AxisBatches : Input(1, batch, FALSE, TRUE)

SpecCal == InitCal /\ [][NextCal]_vars

(***************************************************************************)
(* The main loop draining a queue the scans have filled                    *)
(***************************************************************************)
\* The configs the scans have read from the config files: a usable one, one
\* with an axis whose min = max, one with a non-numeric axis key.
AttachConfigs == {1, 3, 6}

\* The entries a scan thread can have put.
QueueEntries ==
    { [dev |-> [fn |-> p, name |-> n], cfg |-> c] :
        p \in Paths, n \in Names, c \in AttachConfigs }

\* The tables after the main loop has attached the devices at the paths
\* 1..n, of the first model and with its usable config.
RECURSIVE AttachedUpTo(_)
AttachedUpTo(n) ==
    IF n = 0
    THEN [devices |-> [p \in Paths |-> 0], used_ids |-> {},
          wr |-> [w \in Wrappers |-> NoWrapper]]
    ELSE handle_new_device(AttachedUpTo(n - 1), [fn |-> n, name |-> NameA], 1, n, TRUE)

\* The driver between two calls of mainloop(), no scan running and the next
\* one not yet due: some devices are attached, and the scan threads before
\* have left entries in the queue (for devices that were not in the table
\* when the thread looked).
InitAttach ==
    \E n \in 0..NumPaths, q \in UNION { [1..l -> QueueEntries] : l \in 0..MaxQueue } :
        LET T == AttachedUpTo(n)
        IN  /\ devices = T.devices
            /\ used_ids = T.used_ids
            /\ wr = T.wr
            /\ nw = n
            /\ new_devices = q
            /\ lock = "free"
            /\ scan_thread = NoValue
            /\ next_scan = SCAN_INTERVAL
            /\ thr = [t \in Threads |-> IdleThread]
            /\ mpc = "idle"
            /\ mret = "idle"
            /\ now = 0
            /\ dropped = FALSE
            /\ repeated = FALSE
            /\ last_input = NoInput
            /\ keys = [w \in Wrappers |-> NoKeys]

NextAttach ==
    \/ MainloopBegin
    \/ DrainLock
    \/ \E grabOk \in BOOLEAN : DrainStep(MaxAttached, grabOk)
    \/ DrainEnd
    \/ \E p \in Paths, ungrabOk \in BOOLEAN : RemovalRequest(p, ungrabOk)

SpecAttach == InitAttach /\ [][NextAttach]_vars

(***************************************************************************)
(* Properties                                                              *)
(***************************************************************************)
\* How often x is in a wrapper's log, and where.
Count(log, x) == Cardinality({ i \in DOMAIN log : log[i] = x })
Places(log, x) == { i \in DOMAIN log : log[i] = x }

\* The wrappers in _devices.
Attached == { w \in 1..nw : devices[wr[w].fn] = w }

\* The wrappers device_removed has taken out of _devices.
Removed == { w \in 1..nw : Count(wr[w].log, "remove_controller") > 0 }

\* C1: the ids (get_id()) of the wrappers attached at the same time are
\* pairwise distinct, whatever attaches and removals came before and also
\* when several devices report the same name.
C1_DistinctIds ==
    \A v, w \in Attached : v # w => wr[v].id # wr[w].id

\* C1 happens: two devices of the same name are attached at once.
C1_Witness ==
    \E v, w \in Attached : v # w /\ wr[v].name = wr[w].name

\* C2: per wrapper, add_controller is called once, at attach, and
\* remove_controller once, when the device is removed and after
\* add_controller; a wrapper out of the table has had its one
\* remove_controller, and further removals of its device add none.
C2_NotifiedOnce ==
    \A w \in 1..nw :
        LET log == wr[w].log
            adds == Count(log, "add_controller")
            rems == Count(log, "remove_controller")
        IN  /\ adds <= 1
            /\ rems <= adds
            /\ w \in Attached => adds = 1 /\ rems = 0
            /\ adds = 1 /\ w \notin Attached => rems = 1
            /\ \A i \in Places(log, "remove_controller") :
                  \E j \in Places(log, "add_controller") : j < i

\* C2 happens: a wrapper has been removed and device_removed has been called
\* for its device once more.
C2_Witness ==
    /\ repeated
    /\ \E w \in Removed : devices[wr[w].fn] = 0

\* A wrapper the daemon has and whose device has not been removed.
Live(w) == wr[w].stage = "attached"

\* No two live wrappers have the same device path, and each is the entry of
\* its path in _devices.
OneLivePerPath ==
    /\ \A v, w \in 1..nw : Live(v) /\ Live(w) /\ wr[v].fn = wr[w].fn => v = w
    /\ \A w \in 1..nw : Live(w) => devices[wr[w].fn] = w

\* mainloop() is about to take from the queue an entry whose device is in
\* _devices.
HeadIsDuplicate ==
    /\ mpc = "draining"
    /\ new_devices # << >>
    /\ devices[Head(new_devices).dev.fn] # 0

\* C3: at most one live wrapper exists per device path, and the drain drops
\* a queued entry whose path is attached already: it constructs no wrapper,
\* calls no add_controller and leaves the table as it is.
C3_OneWrapperPerPath ==
    [][ /\ OneLivePerPath'
        /\ HeadIsDuplicate /\ new_devices' # new_devices =>
              nw' = nw /\ wr' = wr /\ devices' = devices /\ used_ids' = used_ids
      ]_vars

\* C3 happens: the drain has dropped an entry while a wrapper was attached.
C3_Witness ==
    /\ dropped
    /\ \E w \in 1..nw : Live(w)

\* C4: at most one scan thread is active, and _scan_thread is set while one
\* is.
C4_OneScanThread ==
    /\ Cardinality({ t \in Threads : thr[t].pc # "idle" }) <= 1
    /\ \A t \in Threads : thr[t].pc # "idle" => scan_thread = t

\* C4 happens: a main-loop tick is inside scan() while a scan thread is in
\* flight.
C4_Witness ==
    /\ mpc = "scan_locked"
    /\ mret = "drain_wait"
    /\ scan_thread # NoValue
    /\ thr[scan_thread].pc # "idle"

\* A step in which a scan thread looks up a device in _devices (its
\* skip-check), one that puts an entry into the queue, one that takes an
\* entry out of it, one that puts an entry into _devices and one that
\* deletes an entry of it.
ScanReadsTable == \E t \in Threads : thr[t].pc = "check" /\ thr'[t] # thr[t]
Enqueues == Len(new_devices') > Len(new_devices)
Dequeues == Len(new_devices') < Len(new_devices)
TableInsert == \E p \in Paths : devices[p] = 0 /\ devices'[p] # 0
TableDelete == \E p \in Paths : devices[p] # 0 /\ devices'[p] = 0

\* C5: every access to the device table and to the discovery queue is made
\* by a thread that holds the lock: the scan thread's skip-check and its
\* enqueue, the main thread's dequeue, its insert into the table and its
\* deletion of a table entry.  The program does not satisfy it: the
\* skip-check and device_removed run without the lock.
C5_AllAccessesLocked ==
    [][ /\ ScanReadsTable => lock = "scan"
        /\ Enqueues => lock = "scan"
        /\ Dequeues => lock = "main"
        /\ TableInsert => lock = "main"
        /\ TableDelete => lock = "main"
      ]_vars

\* The deadline has been reached at time t (None is no deadline).
Reached(t, deadline) == deadline = NoValue \/ t >= deadline

\* C6: a scan thread is started only when the deadline the last scan has set
\* is reached.  The program does not satisfy it: mainloop() compares the time
\* with _next_scan before scan() takes the lock, and the scan thread can end
\* in between.
C6_NoScanBeforeDeadline ==
    [][ scan_thread = NoValue /\ scan_thread' # NoValue => Reached(now, next_scan) ]_vars

\* C7: a removed wrapper has been taken out of the table, the daemon has
\* been told, its id is released, its registration with the poller is gone
\* and its device is closed, the registration before the close, also when
\* ungrab() failed.
C7_RemovalComplete ==
    \A w \in Removed :
        LET log == wr[w].log
        IN  /\ devices[wr[w].fn] # w
            /\ Count(log, "del_entry") = 1
            /\ Count(log, "release_id") = 1
            /\ Count(log, "unregister") = 1
            /\ Count(log, "close") = 1
            /\ \A i \in Places(log, "unregister"), j \in Places(log, "close") : i < j
            /\ ~wr[w].registered
            /\ ~wr[w].open
            /\ wr[w].id \in used_ids =>
                  \E v \in 1..nw : v > w /\ wr[v].id = wr[w].id

\* C7 happens: a wrapper has been removed and its ungrab() failed.
C7_Witness ==
    \E w \in Removed : Count(wr[w].log, "ungrab_failed") = 1

\* C8: the mapper is called only when a field of the new snapshot differs
\* from the one before.  The program does not satisfy it: its test is the
\* identity of the tuple, and every mapped event builds a new tuple.
C8_NotifiedOnlyOnChange ==
    last_input.notified => last_input.new # last_input.old

\* C9: input() on a batch without an event of a mapped code (the empty batch
\* too) leaves _state as it was and does not call the mapper.
C9_UnmappedIsNoOp ==
    ~last_input.mapped =>
        /\ last_input.new = last_input.old
        /\ wr[1].state = last_input.old
        /\ ~last_input.notified

\* C9 happens: an event of an unmapped code has been read in a state other
\* than the initial one.
C9_Witness ==
    /\ last_input.len = 1
    /\ ~last_input.mapped
    /\ last_input.single.type \in {EV_KEY, EV_ABS}
    /\ wr[1].state # ZeroState

\* The logical buttons of the model.
Buttons == {SCButtons_A, SCButtons_B}

\* The bit of the raw code of a key event, 0 for an unmapped code.
BitOf(w, code) ==
    IF code \in DOMAIN Maps(wr[w]).evdev_to_button
    THEN Maps(wr[w]).evdev_to_button[code] ELSE 0

\* C10: after key events only, a button's bit is set iff the last event on a
\* raw code mapped to the button was a press; one key event changes no bit
\* but the one of its code, and no axis field.
C10_ButtonBits ==
    /\ keys[1].only_keys =>
          \A b \in Buttons :
              (BitAnd(wr[1].state.buttons, b) = b) <=> keys[1].pressed[b]
    /\ last_input.len = 1 /\ last_input.single.type = EV_KEY =>
          LET bit == BitOf(1, last_input.single.code)
          IN  /\ BitClear(last_input.new.buttons, bit) = BitClear(last_input.old.buttons, bit)
              /\ \A f \in Fields \ {"buttons"} : last_input.new[f] = last_input.old[f]

\* C10 happens: button A is released on one of its two raw codes while B
\* stays pressed.
C10_Witness ==
    /\ keys[1].only_keys
    /\ last_input.len = 1
    /\ last_input.single = Event(EV_KEY, 306, 0)
    /\ last_input.old.buttons = SCButtons_A + SCButtons_B
    /\ last_input.new.buttons = SCButtons_B

\* The trigger fields and the stick and pad fields of a snapshot.
TriggerFields == {"ltrig", "rtrig"}
StickFields == Fields \ (TriggerFields \cup {"buttons"})

\* C11: every field of the stored snapshot is in its canonical range, the
\* triggers in 0..TRIGGER_MAX and the sticks and pads in
\* -STICK_PAD_MAX..STICK_PAD_MAX, whatever the raw sample.  The program does
\* not satisfy it: input() does not clamp, and it scales a trigger like a
\* stick, from an offset of -3 or 1.
C11_FieldsInRange ==
    /\ \A f \in TriggerFields :
          wr[1].state[f] >= 0 /\ wr[1].state[f] <= TRIGGER_MAX
    /\ \A f \in StickFields :
          wr[1].state[f] >= 0 - STICK_PAD_MAX /\ wr[1].state[f] <= STICK_PAD_MAX

\* The entries of a config's "axes" object that _parse_config calibrates as
\* sticks or pads.
StickAxes(c) ==
    { i \in DOMAIN ConfigTable[c].axes :
        /\ ConfigTable[c].axes[i].axis \in StickFields
        /\ ConfigTable[c].axes[i].key \in DOMAIN ConfigMaps[c].calibrations }

\* The output of input() for a raw sample on the axis of entry e.
Output(c, e, raw) == Calibrate(ConfigMaps[c].calibrations[e.key], raw)

\* a and b are equal within the rounding of int().
Near(a, b) == a - b \in {0 - 1, 0, 1}

\* C12: for a stick axis with max # min, the raw sample min gives one of
\* -STICK_PAD_MAX and STICK_PAD_MAX and the raw sample max the other, within
\* rounding, the outputs between them are monotone, and a range with
\* min < 0 < max and center 0 gives 0 for the raw sample 0.  The program does
\* not satisfy it: the transform is raw * 2 / (max - min) - 1, which takes
\* min to -1 only when min is 0.
C12_EndpointsOnBounds ==
    \A i \in StickAxes(wr[1].cfg) :
        LET c == wr[1].cfg
            e == ConfigTable[c].axes[i]
            lo == Output(c, e, e.min)
            hi == Output(c, e, e.max)
            ev == last_input.single
        IN  (last_input.len = 1 /\ ev.type = EV_ABS /\ ev.code = e.key) =>
               /\ \/ Near(lo, 0 - STICK_PAD_MAX) /\ Near(hi, STICK_PAD_MAX)
                  \/ Near(lo, STICK_PAD_MAX) /\ Near(hi, 0 - STICK_PAD_MAX)
               /\ ev.value = e.min => last_input.new[e.axis] = lo
               /\ ev.value = e.max => last_input.new[e.axis] = hi
               /\ (ev.value > e.min /\ ev.value < e.max) =>
                     \/ lo <= last_input.new[e.axis] /\ last_input.new[e.axis] <= hi
                     \/ hi <= last_input.new[e.axis] /\ last_input.new[e.axis] <= lo
               /\ (ev.value = 0 /\ e.min < 0 /\ e.max > 0 /\ e.center = 0) =>
                     Near(last_input.new[e.axis], 0)
\* The axis entries of a config with min = max that _parse_config gets to.
DegenerateAxes(c) ==
    { i \in DOMAIN ConfigTable[c].axes :
        /\ ConfigTable[c].axes[i].axis \in Fields
        /\ ConfigTable[c].axes[i].min = ConfigTable[c].axes[i].max
        /\ \A j \in 1..i : ConfigTable[c].axes[j].key # NoValue }

\* The wrappers whose construction got to _parse_config.
Parsing == { w \in 1..nw : wr[w].stage # "grab_failed" }

\* C13: computing the calibration of an axis with min = max ends in no
\* error: the branch of the inverted orientation stores a record for it and
\* the attach of the device completes.  The program does not satisfy it:
\* -2.0 / (min - max) divides by zero and the exception leaves the attach.
C13_DegenerateRangeAttaches ==
    \A w \in Parsing : \A i \in DegenerateAxes(wr[w].cfg) :
        LET e == ConfigTable[wr[w].cfg].axes[i]
        IN  /\ wr[w].stage \in {"attached", "removed"}
            /\ e.key \in DOMAIN Maps(wr[w]).calibrations
            /\ Maps(wr[w]).calibrations[e.key].offset = 1

\* The entries of a config that are well-formed: a numeric key and a known
\* button name, a numeric key and an axis name of _fields with max # min.
ValidButtons(c) ==
    { i \in DOMAIN ConfigTable[c].buttons :
        /\ ConfigTable[c].buttons[i].key # NoValue
        /\ SCButtons(ConfigTable[c].buttons[i].name) # NoValue }
ValidAxes(c) ==
    { i \in DOMAIN ConfigTable[c].axes :
        /\ ConfigTable[c].axes[i].key # NoValue
        /\ ConfigTable[c].axes[i].axis \in Fields
        /\ ConfigTable[c].axes[i].min # ConfigTable[c].axes[i].max }

\* C14: a malformed or unrecognized entry of a config is skipped alone: for
\* a config without an axis of min = max, the attach completes and every
\* well-formed button and axis entry is mapped.  The program does not
\* satisfy it: the loop over "axes" has no try, and int() of a non-numeric
\* axis key raises out of the attach.
C14_BadEntrySkipped ==
    \A w \in Parsing :
        LET c == wr[w].cfg
        IN  (\A i \in DOMAIN ConfigTable[c].axes :
                ConfigTable[c].axes[i].min # ConfigTable[c].axes[i].max) =>
               /\ wr[w].stage \in {"attached", "removed"}
               /\ \A i \in ValidButtons(c) :
                     ConfigTable[c].buttons[i].key \in DOMAIN Maps(wr[w]).evdev_to_button
               /\ \A i \in ValidAxes(c) :
                     ConfigTable[c].axes[i].key \in DOMAIN Maps(wr[w]).evdev_to_axis

\* A step of mainloop() that constructs a wrapper, and one that attaches it.
Constructs == nw' = nw + 1
Attaches == Constructs /\ wr'[nw'].stage = "attached"

\* C15: devices are attached in the order of discovery: every turn of the
\* drain loop takes the entry that was put first, the wrapper it constructs
\* is for that entry, and the entries behind keep their order; so of two
\* entries drained in one call, add_controller is called for the one put
\* first before the other.
C15_AttachInQueueOrder ==
    [][ /\ Dequeues => new_devices' = Tail(new_devices)
        /\ Constructs =>
              /\ Dequeues
              /\ wr'[nw'].fn = Head(new_devices).dev.fn
              /\ wr'[nw'].name = Head(new_devices).dev.name
              /\ wr'[nw'].cfg = Head(new_devices).cfg
        /\ Attaches =>
              /\ Count(wr'[nw'].log, "add_controller") = 1
              /\ \A w \in 1..nw : Count(wr'[w].log, "add_controller") =
                                      Count(wr[w].log, "add_controller") ]_vars

\* Two devices of the second model were queued, the one at path 2 first, and
\* one call of mainloop() has attached both, the one at path 2 first.
C15_Witness ==
    /\ mpc = "draining"
    /\ new_devices = << >>
    /\ nw = 2
    /\ Live(1) /\ Live(2)
    /\ wr[1].name = NameB /\ wr[2].name = NameB
    /\ wr[1].fn = 2 /\ wr[2].fn = 1
\* The id _generate_id makes of a name with magic_number m.
Probe(name, m) == FormatId(crc32(name, m))

\* A step that removes wrapper w.
Removes(w) == wr[w].stage = "attached" /\ wr'[w].stage = "removed"

\* The wrappers removed whose id no wrapper has taken since.
Released(name) ==
    { w \in 1..nw : wr[w].stage = "removed" /\ wr[w].name = name
                                           /\ wr[w].id \notin used_ids }

\* C16, strong form: an id is released at removal and only then, and the
\* next device attaching with the same name receives the released id.  It
\* fails when two ids of one name are free: the device receives the first.
C16_ReleasedIdIsNext ==
    [][ /\ \A w \in 1..nw : Removes(w) => wr[w].id \notin used_ids'
        /\ \A w \in 1..nw : (Live(w) /\ wr'[w].stage = "attached") => wr[w].id \in used_ids'
        /\ Attaches => \A w \in Released(wr'[nw'].name) : wr'[nw'].id = wr[w].id ]_vars

\* C16: an id is released at removal and only then: after the removal it is
\* not in _used_ids, the id of a wrapper that stays attached stays in
\* _used_ids, and a device attaching receives the first id of its name, in
\* the order of the magic numbers, that is not in use; that is the id
\* released last when all the ids before it are in use.
C16_ReleasedIdIsReused ==
    [][ /\ \A w \in 1..nw : Removes(w) => wr[w].id \notin used_ids'
        /\ \A w \in 1..nw : (Live(w) /\ wr'[w].stage = "attached") => wr[w].id \in used_ids'
        /\ Attaches =>
              \E m \in 0..nw :
                  /\ wr'[nw'].id = Probe(wr'[nw'].name, m)
                  /\ wr'[nw'].id \notin used_ids
                  /\ wr'[nw'].id \in used_ids'
                  /\ \A k \in 0..(m - 1) : Probe(wr'[nw'].name, k) \in used_ids ]_vars

\* Two devices of one name were attached and removed, the first one first,
\* and a third device of that name has attached: it has the id of the first,
\* which is not the id released last.
C16_Witness ==
    /\ nw = 3
    /\ wr[1].stage = "removed" /\ wr[2].stage = "removed" /\ Live(3)
    /\ wr[1].name = wr[3].name /\ wr[2].name = wr[3].name
    /\ wr[3].id = wr[1].id /\ wr[3].id # wr[2].id
    /\ wr[3].id \in used_ids /\ wr[2].id \notin used_ids
\* C17: json.loads raising for the config of one device does not affect
\* the others: nothing is enqueued for that device, the scan thread goes on
\* to the next device node (or to the end of the loop), and a scan thread
\* ends only by clearing _scan_thread and setting _next_scan, after which
\* scan() may start the next one.
C17_ParseFailureSkipsOne ==
    [][ \A t \in Threads :
          /\ (thr'[t].bad /\ thr'[t] # thr[t]) =>
                /\ thr[t].pc = "check"
                /\ new_devices' = new_devices
                /\ scan_thread' = scan_thread
                /\ \/ thr'[t].pc = "check" /\ thr'[t].i = thr[t].i + 1
                   \/ thr'[t].pc = "end_wait" /\ thr[t].i = NumPaths
          /\ (thr[t].pc # "idle" /\ thr'[t].pc = "idle") =>
                /\ thr[t].pc = "end"
                /\ scan_thread' = NoValue
                /\ next_scan' = now + SCAN_INTERVAL
                /\ MayStartScan' ]_vars

\* The scan thread has enqueued the device at path 1, json.loads has raised
\* for the config of the device at path 2, and the thread is about to end
\* the scan.
C17_Witness ==
    \E t \in Threads :
        /\ thr[t].bad
        /\ thr[t].pc = "end_wait"
        /\ scan_thread = t
        /\ Len(new_devices) = 1
        /\ new_devices[1].dev.fn = 1
\* C18: no discovery entry is lost: an entry mainloop() takes from the queue
\* is attached, or it is passed over because its device path is in the
\* device table.  The program does not satisfy it: when the constructor of
\* the wrapper raises, the entry is gone from the queue and its device is
\* not attached.
C18_DequeuedIsAttachedOrDuplicate ==
    [][ Dequeues =>
          \/ devices[Head(new_devices).dev.fn] # 0
          \/ /\ Attaches
             /\ wr'[nw'].fn = Head(new_devices).dev.fn
             /\ devices'[wr'[nw'].fn] = nw' ]_vars

\* C19: once input() has removed its wrapper because the read failed, the
\* mapper is not called by that wrapper any more, not even by the call of
\* input() that removed it.  The program does not satisfy it: after
\* device_removed() returns, input() goes on to its test of new_state and
\* calls the mapper it still has.
C19_NoNotificationAfterRemoval ==
    wr[1].stage = "removed" => ~last_input.notified

\* The wrappers registered with the poller.
Registered == { w \in 1..nw : wr[w].registered }

\* C20: attach is all or nothing: between two calls of mainloop() the ids in
\* use and the descriptors registered with the poller are those of the
\* wrappers in the device table.  The program does not satisfy it: the
\* constructor registers before it grabs and reserves the id before it
\* parses the config, and nothing undoes either when a later step raises.
C20_AttachAllOrNothing ==
    mpc = "idle" =>
        /\ used_ids = { wr[w].id : w \in Attached }
        /\ Registered = Attached
====
